---- MODULE Spec2Model ----
(***************************************************************************)
(* pi-critique: the /critique command, its argument parser, the path       *)
(* normalizer and the turn-scoped write guard (src/index.ts).              *)
(*                                                                         *)
(* A JavaScript string is modelled as a sequence of one-character strings, *)
(* so "b.md" is <<"b", ".", "m", "d">>.  An optional value (undefined or a *)
(* value) is modelled as a sequence of length 0 or 1.                      *)
(***************************************************************************)
EXTENDS Naturals, Sequences, FiniteSets, TLC

\* ------------------------------------------------------------------------
\* Bounds of the model
\* ------------------------------------------------------------------------

\* how many /critique invocations may be suspended in waitForIdle at once
MaxPending == 2

\* longest argument string drawn character by character
MaxArgLen == 4

\* most words of an argument string drawn word by word
MaxWords == 3

\* most entries of a transcript
MaxBranchLen == 3

\* ------------------------------------------------------------------------
\* String primitives (ECMAScript String.prototype, as used by src/index.ts)
\* ------------------------------------------------------------------------

\* the white space of /\s/ and of trim(): space, tab, newline
IsSpace(c) == c \in {" ", "\t", "\n"}

RECURSIVE TrimStart(_)
TrimStart(s) ==
    IF s # <<>> /\ IsSpace(Head(s)) THEN TrimStart(Tail(s)) ELSE s

RECURSIVE TrimEnd(_)
TrimEnd(s) ==
    IF s # <<>> /\ IsSpace(s[Len(s)])
    THEN TrimEnd(SubSeq(s, 1, Len(s) - 1))
    ELSE s

Trim(s) == TrimStart(TrimEnd(s))

StartsWith(s, p) == Len(s) >= Len(p) /\ SubSeq(s, 1, Len(p)) = p

\* s.slice(n)
Slice(s, n) == SubSeq(s, n + 1, Len(s))

UpperChars ==
    <<"A", "B", "C", "D", "E", "F", "G", "H", "I", "J", "K", "L", "M",
      "N", "O", "P", "Q", "R", "S", "T", "U", "V", "W", "X", "Y", "Z">>

LowerChars ==
    <<"a", "b", "c", "d", "e", "f", "g", "h", "i", "j", "k", "l", "m",
      "n", "o", "p", "q", "r", "s", "t", "u", "v", "w", "x", "y", "z">>

LowerChar(c) ==
    IF \E i \in DOMAIN UpperChars : UpperChars[i] = c
    THEN LowerChars[CHOOSE i \in DOMAIN UpperChars : UpperChars[i] = c]
    ELSE c

ToLowerCase(s) == [i \in DOMAIN s |-> LowerChar(s[i])]

\* s.includes(c) for a one-character c
Includes(s, c) == \E i \in DOMAIN s : s[i] = c

\* s.split(sep) for a one-character separator: the pieces between separators
RECURSIVE SplitBy(_, _)
SplitBy(s, sep) ==
    IF ~Includes(s, sep)
    THEN <<s>>
    ELSE LET k == CHOOSE i \in DOMAIN s :
                      s[i] = sep /\ \A j \in 1..(i - 1) : s[j] # sep
         IN  <<SubSeq(s, 1, k - 1)>> \o SplitBy(SubSeq(s, k + 1, Len(s)), sep)

\* s.split(sep).length: one piece more than there are separators in s
SplitCount(s, sep) == Cardinality({i \in DOMAIN s : s[i] = sep}) + 1

\* pieces.join(sep)
RECURSIVE JoinWith(_, _)
JoinWith(pieces, sep) ==
    IF pieces = <<>> THEN <<>>
    ELSE IF Len(pieces) = 1 THEN pieces[1]
    ELSE pieces[1] \o sep \o JoinWith(Tail(pieces), sep)

\* ------------------------------------------------------------------------
\* node:path (POSIX flavour; src/index.ts line 3 imports these).  Paths use
\* "/" as the separator on both platforms of the model: on win32 node
\* accepts "/" too and the comparison of two resolved paths is unaffected
\* by the separator it prints.
\* ------------------------------------------------------------------------

DotDot == <<".", ".">>

IsAbsolute(p) == p # <<>> /\ p[1] = "/"

\* normalizeString: drop empty and "." segments, let ".." remove the
\* segment before it
RECURSIVE NormalizeSegs(_, _, _)
NormalizeSegs(segs, acc, allowAboveRoot) ==
    IF segs = <<>> THEN acc
    ELSE LET seg  == Head(segs)
             rest == Tail(segs)
         IN  IF seg = <<>> \/ seg = <<".">>
             THEN NormalizeSegs(rest, acc, allowAboveRoot)
             ELSE IF seg = DotDot
             THEN IF acc # <<>> /\ acc[Len(acc)] # DotDot
                  THEN NormalizeSegs(rest, SubSeq(acc, 1, Len(acc) - 1), allowAboveRoot)
                  ELSE IF allowAboveRoot
                  THEN NormalizeSegs(rest, Append(acc, seg), allowAboveRoot)
                  ELSE NormalizeSegs(rest, acc, allowAboveRoot)
             ELSE NormalizeSegs(rest, Append(acc, seg), allowAboveRoot)

\* path.normalize(p)
PathNormalize(p) ==
    IF p = <<>> THEN <<".">>
    ELSE LET abs      == IsAbsolute(p)
             trailing == p[Len(p)] = "/"
             body     == JoinWith(NormalizeSegs(SplitBy(p, "/"), <<>>, ~abs), <<"/">>)
         IN  IF body = <<>>
             THEN IF abs THEN <<"/">> ELSE IF trailing THEN <<".", "/">> ELSE <<".">>
             ELSE (IF abs THEN <<"/">> ELSE <<>>) \o body
                  \o (IF trailing THEN <<"/">> ELSE <<>>)

\* path.join(a, b): empty arguments are skipped, the rest joined and normalized
PathJoin(a, b) ==
    IF a = <<>> /\ b = <<>> THEN <<".">>
    ELSE IF b = <<>> THEN PathNormalize(a)
    ELSE IF a = <<>> THEN PathNormalize(b)
    ELSE PathNormalize(a \o <<"/">> \o b)

\* path.resolve(from, to) with an absolute `from` (a working directory);
\* path.resolve(to) with an absolute `to` is PathResolve(<<"/">>, to)
PathResolve(from, to) ==
    LET joined == IF IsAbsolute(to) THEN to
                  ELSE IF to = <<>> THEN from
                  ELSE from \o <<"/">> \o to
    IN  <<"/">> \o JoinWith(NormalizeSegs(SplitBy(joined, "/"), <<>>, FALSE), <<"/">>)

\* the last path segment, trailing separators ignored
RECURSIVE StripTrailingSlashes(_)
StripTrailingSlashes(p) ==
    IF p # <<>> /\ p[Len(p)] = "/"
    THEN StripTrailingSlashes(SubSeq(p, 1, Len(p) - 1))
    ELSE p

\* path.basename(p)
Basename(p) ==
    LET q    == StripTrailingSlashes(p)
        segs == SplitBy(q, "/")
    IN  segs[Len(segs)]

\* path.extname(p): from the last "." of the basename to its end; empty
\* when there is no ".", when the only "." starts the basename, and for ".."
Extname(p) ==
    LET b    == Basename(p)
        dots == {i \in DOMAIN b : b[i] = "."}
    IN  IF dots = {} THEN <<>>
        ELSE LET d == CHOOSE i \in dots : \A j \in dots : j <= i
             IN  IF d = 1 \/ b = DotDot THEN <<>> ELSE SubSeq(b, d, Len(b))

\* ------------------------------------------------------------------------
\* Lens tables
\* ------------------------------------------------------------------------

CODE_EXTENSIONS ==
    { <<".", "t", "s">>, <<".", "t", "s", "x">>, <<".", "j", "s">>,
      <<".", "j", "s", "x">>, <<".", "m", "j", "s">>, <<".", "c", "j", "s">>,
      <<".", "p", "y">>, <<".", "p", "y", "w">>, <<".", "r", "s">>,
      <<".", "g", "o">>, <<".", "j", "a", "v", "a">>, <<".", "k", "t">>,
      <<".", "s", "c", "a", "l", "a">>, <<".", "c">>, <<".", "h">>,
      <<".", "c", "p", "p">>, <<".", "h", "p", "p">>, <<".", "c", "c">>,
      <<".", "c", "x", "x">>, <<".", "c", "s">>, <<".", "f", "s">>,
      <<".", "r", "b">>, <<".", "p", "l">>, <<".", "p", "m">>,
      <<".", "s", "h">>, <<".", "b", "a", "s", "h">>, <<".", "z", "s", "h">>,
      <<".", "f", "i", "s", "h">>, <<".", "l", "u", "a">>, <<".", "z", "i", "g">>,
      <<".", "n", "i", "m">>, <<".", "j", "l">>, <<".", "s", "w", "i", "f", "t">>,
      <<".", "m">>, <<".", "m", "m">>, <<".", "r">>,
      <<".", "s", "q", "l">>, <<".", "h", "t", "m", "l">>, <<".", "c", "s", "s">>,
      <<".", "s", "c", "s", "s">>, <<".", "s", "a", "s", "s">>, <<".", "l", "e", "s", "s">>,
      <<".", "j", "s", "o", "n">>, <<".", "y", "a", "m", "l">>, <<".", "y", "m", "l">>,
      <<".", "t", "o", "m", "l">>, <<".", "x", "m", "l">>, <<".", "d", "o", "c", "k", "e", "r", "f", "i", "l", "e">>,
      <<".", "t", "f">>, <<".", "h", "c", "l">>, <<".", "v", "u", "e">>,
      <<".", "s", "v", "e", "l", "t", "e">> }

CODE_FILENAMES ==
    { <<"d", "o", "c", "k", "e", "r", "f", "i", "l", "e">>, <<"m", "a", "k", "e", "f", "i", "l", "e">>,
      <<"g", "n", "u", "m", "a", "k", "e", "f", "i", "l", "e">>, <<"r", "a", "k", "e", "f", "i", "l", "e">>,
      <<"g", "e", "m", "f", "i", "l", "e">>, <<"v", "a", "g", "r", "a", "n", "t", "f", "i", "l", "e">>,
      <<"j", "u", "s", "t", "f", "i", "l", "e">>, <<"t", "a", "s", "k", "f", "i", "l", "e">>,
      <<"c", "m", "a", "k", "e", "l", "i", "s", "t", "s", ".", "t", "x", "t">> }

WRITING_EXTENSIONS ==
    { <<".", "m", "d">>, <<".", "m", "a", "r", "k", "d", "o", "w", "n">>, <<".", "t", "x", "t">>,
      <<".", "t", "e", "x", "t">>, <<".", "t", "e", "x">>, <<".", "l", "a", "t", "e", "x">>,
      <<".", "b", "i", "b">>, <<".", "r", "s", "t">>, <<".", "a", "d", "o", "c">>,
      <<".", "a", "s", "c", "i", "i", "d", "o", "c">>, <<".", "o", "r", "g">>, <<".", "w", "i", "k", "i">> }

\* ------------------------------------------------------------------------
\* The process environment and the state of the extension
\* ------------------------------------------------------------------------

VARIABLES
    platform,            \* process.platform
    home,                \* process.env.HOME: <<>> when unset, else <<value>>
    critiqueWriteGuard,  \* the write guard slot of the extension instance
    agentBusy,           \* host: an agent turn is in flight
    pending,             \* /critique handlers suspended in ctx.waitForIdle()
    last,                \* the last handler step: its inputs, what it returned and what it called
    turnSources,         \* history: sources whose critique was submitted since the last agent_end
    resetSource,         \* history: source submitted by the last invocation that passed waitForIdle since the last agent_end
    endedArmed           \* history: the last agent_end cleared an armed guard and no invocation has passed waitForIdle since

vars == <<platform, home, critiqueWriteGuard, agentBusy, pending, last,
          turnSources, resetSource, endedArmed>>

\* ------------------------------------------------------------------------
\* Path normalizer
\* ------------------------------------------------------------------------

expandHome(pathInput) ==
    IF pathInput = <<"~">>
    THEN IF home # <<>> THEN home[1] ELSE pathInput
    ELSE IF ~StartsWith(pathInput, <<"~", "/">>) THEN pathInput
    ELSE IF home = <<>> \/ home[1] = <<>> THEN pathInput
    ELSE PathJoin(home[1], Slice(pathInput, 2))

\* isAbsolute(expanded) ? resolve(expanded) : resolve(cwd, expanded)
ResolveExpanded(expanded, cwd) ==
    IF IsAbsolute(expanded)
    THEN PathResolve(<<"/">>, expanded)
    ELSE PathResolve(cwd, expanded)

WithoutAt(pathInput) ==
    IF StartsWith(pathInput, <<"@">>) THEN Slice(pathInput, 1) ELSE pathInput

normalizePathForComparison(pathInput, cwd) ==
    ResolveExpanded(expandHome(Trim(WithoutAt(pathInput))), cwd)

pathsEqual(a, b) ==
    IF platform = "win32"
    THEN ToLowerCase(a) = ToLowerCase(b)
    ELSE a = b

\* ------------------------------------------------------------------------
\* Lens classifier
\* ------------------------------------------------------------------------

\* filePath is optional: <<>> or <<path>>; an empty path is falsy too
detectLens(filePath) ==
    IF filePath = <<>> \/ filePath[1] = <<>> THEN "writing"
    ELSE LET ext == ToLowerCase(Extname(filePath[1]))
         IN  IF ext \in CODE_EXTENSIONS THEN "code"
             ELSE IF ext \in WRITING_EXTENSIONS THEN "writing"
             ELSE IF ext = <<>> /\ ToLowerCase(Basename(filePath[1])) \in CODE_FILENAMES
             THEN "code"
             ELSE "writing"

\* ------------------------------------------------------------------------
\* Argument tokenizer and parser
\* ------------------------------------------------------------------------

IsQuote(c) == c = "\"" \/ c = "'"

\* index of the first position >= i of s that satisfies the stop condition,
\* Len(s) + 1 when there is none
RECURSIVE SkipSpaces(_, _)
SkipSpaces(s, i) ==
    IF i <= Len(s) /\ IsSpace(s[i]) THEN SkipSpaces(s, i + 1) ELSE i

RECURSIVE ScanQuoted(_, _, _)
ScanQuoted_AnyQuote(s, i, quote) ==
    IF i <= Len(s) /\ ~IsQuote(s[i]) THEN ScanQuoted(s, i + 1, quote) ELSE i

ScanQuoted(s, i, quote) ==
    IF i <= Len(s) /\ s[i] # quote THEN ScanQuoted(s, i + 1, quote) ELSE i

RECURSIVE ScanBare(_, _)
ScanBare_StopsAtBlank(s, i) ==
    IF i <= Len(s) /\ s[i] # " " THEN ScanBare(s, i + 1) ELSE i

ScanBare(s, i) ==
    IF i <= Len(s) /\ ~IsSpace(s[i]) THEN ScanBare(s, i + 1) ELSE i

\* the outer loop of tokenizeArgs, from position i (1-based) with the
\* tokens found so far
RECURSIVE TokenizeFrom(_, _, _)
TokenizeFrom(s, i, tokens) ==
    LET j == SkipSpaces(s, i)
    IN  IF j > Len(s) THEN tokens
        ELSE IF IsQuote(s[j])
        THEN LET k == ScanQuoted(s, j + 1, s[j])
             IN  TokenizeFrom(s, IF k <= Len(s) THEN k + 1 ELSE k,
                              Append(tokens, SubSeq(s, j + 1, k - 1)))
        ELSE LET k == ScanBare(s, j)
             IN  TokenizeFrom(s, k, Append(tokens, SubSeq(s, j, k - 1)))

tokenizeArgs(input) == TokenizeFrom(Trim(input), 1, <<>>)

ConflictError == [kind |-> "lens-conflict", token |-> <<>>]
UnknownFlagError(token) == [kind |-> "unknown-flag", token |-> token]
UnexpectedArgError(token) == [kind |-> "unexpected-argument", token |-> token]

InitialParsedArgs ==
    [file |-> <<>>, edit |-> FALSE, inline |-> TRUE, lens |-> <<>>,
     help |-> FALSE, error |-> <<>>]

\* !result.file: unset, or set to the empty string
FileUnset(result) == result.file = <<>> \/ result.file[1] = <<>>

SetLens_NoConflict(result, lens, other) == [result EXCEPT !.lens = <<lens>>]

\* --code and --writing: the error when the other lens is set, then the lens
SetLens(result, lens, other) ==
    [result EXCEPT
        !.error = IF result.lens = <<other>> THEN <<ConflictError>> ELSE @,
        !.lens = <<lens>>]

\* one iteration of the loop of parseArgs
ParseToken(result, token) ==
    IF token = <<"-", "-", "h", "e", "l", "p">> \/ token = <<"-", "h">>
    THEN [result EXCEPT !.help = TRUE]
    ELSE IF token = <<"-", "-", "e", "d", "i", "t">> \/ token = <<"-", "e">>
    THEN [result EXCEPT !.edit = TRUE]
    ELSE IF token = <<"-", "-", "n", "o", "-", "i", "n", "l", "i", "n", "e">>
    THEN [result EXCEPT !.inline = FALSE]
    ELSE IF token = <<"-", "-", "c", "o", "d", "e">>
    THEN SetLens(result, "code", "writing")
    ELSE IF token = <<"-", "-", "w", "r", "i", "t", "i", "n", "g">>
    THEN SetLens(result, "writing", "code")
    ELSE IF StartsWith(token, <<"-">>)
    THEN [result EXCEPT !.error = <<UnknownFlagError(token)>>]
    ELSE IF FileUnset(result)
    THEN [result EXCEPT !.file = <<token>>]
    ELSE [result EXCEPT !.error = <<UnexpectedArgError(token)>>]

RECURSIVE ParseTokens(_, _)
ParseTokens_StopAtError(result, tokens) ==
    IF tokens = <<>> \/ result.error # <<>> THEN result
    ELSE ParseTokens(ParseToken(result, Head(tokens)), Tail(tokens))

ParseTokens(result, tokens) ==
    IF tokens = <<>> THEN result
    ELSE ParseTokens(ParseToken(result, Head(tokens)), Tail(tokens))

parseArgs(args) == ParseTokens(InitialParsedArgs, tokenizeArgs(args))

\* ------------------------------------------------------------------------
\* Conversation history scanner
\* ------------------------------------------------------------------------

\* the texts of the text-typed parts of a message content, in order
TextBlocks(content) ==
    LET texts == SelectSeq(content, LAMBDA part : part.type = "text")
    IN  [i \in DOMAIN texts |-> texts[i].text]

RECURSIVE ScanBranch(_, _)
ScanBranch_AnyStopReason(branch, i) ==
    IF i < 1 THEN <<>>
    ELSE LET entry == branch[i]
         IN  IF entry.type # "message" THEN ScanBranch(branch, i - 1)
             ELSE IF entry.role # "assistant" THEN ScanBranch(branch, i - 1)
             ELSE LET markdown == TrimEnd(JoinWith(TextBlocks(entry.content), <<"\n", "\n">>))
                  IN  IF Trim(markdown) # <<>> THEN <<markdown>>
                      ELSE ScanBranch(branch, i - 1)

\* the loop of getLastAssistantMarkdown at index i (1-based), walking down
ScanBranch(branch, i) ==
    IF i < 1 THEN <<>>
    ELSE LET entry == branch[i]
         IN  IF entry.type # "message" THEN ScanBranch(branch, i - 1)
             ELSE IF entry.role # "assistant" THEN ScanBranch(branch, i - 1)
             ELSE IF entry.stopReason # "stop" THEN ScanBranch(branch, i - 1)
             ELSE LET markdown == TrimEnd(JoinWith(TextBlocks(entry.content), <<"\n", "\n">>))
                  IN  IF Trim(markdown) # <<>> THEN <<markdown>>
                      ELSE ScanBranch(branch, i - 1)

getLastAssistantMarkdown(branch) == ScanBranch(branch, Len(branch))

\* ------------------------------------------------------------------------
\* The file system seen by statSync and readFileSync
\* ------------------------------------------------------------------------

LargeFileThreshold == 500

\* a text of n newline-separated pieces
Lines(n) == [i \in 1..(n - 1) |-> "\n"]

Nul == "NUL"

DirD == <<"/", "d">>
DirE == <<"/", "e">>
EdgePy == <<"/", "d", "/", "m", ".", "p", "y">>
BigMd == <<"/", "d", "/", "b", ".", "m", "d">>
BigPlain == <<"/", "d", "/", "k">>
BigMdAnnotated == <<"/", "d", "/", "b", ".", "c", "r", "i", "t", "i", "q", "u", "e", ".", "m", "d">>
BinFile == <<"/", "d", "/", "n", ".", "b", "i", "n">>
LockedMd == <<"/", "d", "/", "u", ".", "m", "d">>

\* path |-> what is on disk there; a path outside the domain does not exist
Disk ==
    (DirD :> [isFile |-> FALSE, readable |-> TRUE, content |-> <<>>]) @@
    (DirE :> [isFile |-> FALSE, readable |-> TRUE, content |-> <<>>]) @@
    (EdgePy :> [isFile |-> TRUE, readable |-> TRUE, content |-> Lines(LargeFileThreshold)]) @@
    (BigMd :> [isFile |-> TRUE, readable |-> TRUE, content |-> Lines(LargeFileThreshold + 1)]) @@
    (BigPlain :> [isFile |-> TRUE, readable |-> TRUE, content |-> Lines(LargeFileThreshold + 1)]) @@
    (BinFile :> [isFile |-> TRUE, readable |-> TRUE, content |-> <<"x", Nul, "y">>]) @@
    (LockedMd :> [isFile |-> TRUE, readable |-> FALSE, content |-> <<>>])

ReadError(kind, filePath) == [ok |-> FALSE, message |-> [kind |-> kind, file |-> filePath],
                              content |-> <<>>, label |-> <<>>, resolvedPath |-> <<>>]

ReadResolved_NoBinaryCheck(filePath, resolved) ==
    IF resolved \notin DOMAIN Disk THEN ReadError("could-not-access", filePath)
    ELSE IF ~Disk[resolved].isFile THEN ReadError("not-a-file", filePath)
    ELSE IF ~Disk[resolved].readable THEN ReadError("failed-to-read", filePath)
    ELSE [ok |-> TRUE, message |-> [kind |-> "none", file |-> <<>>],
          content |-> Disk[resolved].content, label |-> filePath,
          resolvedPath |-> resolved]

\* statSync and readFileSync of the resolved path
ReadResolved(filePath, resolved) ==
    IF resolved \notin DOMAIN Disk THEN ReadError("could-not-access", filePath)
    ELSE IF ~Disk[resolved].isFile THEN ReadError("not-a-file", filePath)
    ELSE IF ~Disk[resolved].readable THEN ReadError("failed-to-read", filePath)
    ELSE IF Includes(Disk[resolved].content, Nul) THEN ReadError("binary", filePath)
    ELSE [ok |-> TRUE, message |-> [kind |-> "none", file |-> <<>>],
          content |-> Disk[resolved].content, label |-> filePath,
          resolvedPath |-> resolved]

readFileContent(filePath, cwd) ==
    ReadResolved(filePath, normalizePathForComparison(filePath, cwd))

\* ------------------------------------------------------------------------
\* Prompt builder: a prompt is the template chosen and what is substituted
\* into it
\* ------------------------------------------------------------------------

LastResponseLabel == <<"last model response">>

buildWritingPrompt(inline) ==
    [template |-> "writing", inline |-> inline, lens |-> "writing",
     filePath |-> <<>>, annotatedPath |-> <<>>, label |-> <<>>, content |-> <<>>]

buildCodePrompt(inline) ==
    [template |-> "code", inline |-> inline, lens |-> "code",
     filePath |-> <<>>, annotatedPath |-> <<>>, label |-> <<>>, content |-> <<>>]

buildLargeFilePrompt(lens, filePath, annotatedPath) ==
    [template |-> "large-file", inline |-> FALSE, lens |-> lens,
     filePath |-> filePath, annotatedPath |-> annotatedPath,
     label |-> <<>>, content |-> <<>>]

\* promptTemplate + sourceHeader + content + "\n</content>"
InlinePrompt(promptTemplate, label, content) ==
    [promptTemplate EXCEPT !.label = label, !.content = content]

\* ------------------------------------------------------------------------
\* Write guard
\* ------------------------------------------------------------------------

\* critiqueWriteGuard: undefined, or one of the two variants
AbsentGuard == [mode |-> "absent", sourcePath |-> <<>>, annotatedPath |-> <<>>]

DenyAll(sourcePath) ==
    [mode |-> "deny-all", sourcePath |-> sourcePath, annotatedPath |-> <<>>]

AllowAnnotatedOnly(sourcePath, annotatedPath) ==
    [mode |-> "allow-annotated-only", sourcePath |-> sourcePath,
     annotatedPath |-> annotatedPath]

\* the reason strings of a blocked call: the fixed text and the paths that
\* are interpolated into it
MissingPathReason ==
    [kind |-> "path-missing", annotatedPath |-> <<>>, sourcePath |-> <<>>]

DenyAllReason(guard) ==
    [kind |-> "non-destructive", annotatedPath |-> <<>>,
     sourcePath |-> <<guard.sourcePath>>]

AnnotatedOnlyReason(guard) ==
    [kind |-> "only-annotated-writable", annotatedPath |-> <<guard.annotatedPath>>,
     sourcePath |-> <<guard.sourcePath>>]

Block(reason) == <<[block |-> TRUE, reason |-> reason]>>

\* a handler that returns nothing
PassThrough == <<>>

\* agent_end handler
GuardAfterAgentEnd_KeepsAnnotated(guard) ==
    IF guard.mode = "deny-all" THEN AbsentGuard ELSE guard

GuardAfterAgentEnd(guard) == AbsentGuard

\* event.toolName !== "write" && event.toolName !== "edit" is false
IsGuardedTool_Any(toolName) == TRUE

IsGuardedTool_WriteOnly(toolName) == toolName = "write"

IsGuardedTool(toolName) == toolName = "write" \/ toolName = "edit"

\* event.input?.path: input.kind is "no-input" (event.input undefined),
\* "undefined" (no path property), "number" or "string" (value in input.str)
PathMissing_NoTrim(input) == input.kind # "string" \/ input.str = <<>>

PathMissing(input) == input.kind # "string" \/ Trim(input.str) = <<>>

TargetPath_Raw(inputPath, cwd) == inputPath

TargetPath(inputPath, cwd) == normalizePathForComparison(inputPath, cwd)

\* the mode-dependent part of the tool_call handler
GuardVerdict_SourceOnly(guard, targetPath) ==
    IF guard.mode = "deny-all"
    THEN IF pathsEqual(targetPath, guard.sourcePath)
         THEN Block(DenyAllReason(guard))
         ELSE PassThrough
    ELSE IF ~pathsEqual(targetPath, guard.annotatedPath)
    THEN Block(AnnotatedOnlyReason(guard))
    ELSE PassThrough

GuardVerdict(guard, targetPath) ==
    IF guard.mode = "deny-all"
    THEN Block(DenyAllReason(guard))
    ELSE IF ~pathsEqual(targetPath, guard.annotatedPath)
    THEN Block(AnnotatedOnlyReason(guard))
    ELSE PassThrough

\* tool_call handler: <<>> when it returns nothing, else the block result
toolCallHandler(guard, toolName, input, cwd) ==
    IF guard.mode = "absent" THEN PassThrough
    ELSE IF ~IsGuardedTool(toolName) THEN PassThrough
    ELSE IF PathMissing(input) THEN Block(MissingPathReason)
    ELSE GuardVerdict(guard, TargetPath(input.str, cwd))

\* ------------------------------------------------------------------------
\* /critique command handler
\* ------------------------------------------------------------------------

Notification(level, message) == [level |-> level, message |-> message]

NoUIMessage == [kind |-> "requires-interactive-mode", file |-> <<>>]
UsageMessage == [kind |-> "usage", file |-> <<>>]
NoResponseMessage == [kind |-> "no-assistant-response", file |-> <<>>]
LoadedIntoEditorMessage == [kind |-> "loaded-into-editor", file |-> <<>>]
CritiquingMessage == [kind |-> "critiquing", file |-> <<>>]

\* critiqueWriteGuard = undefined, after waitForIdle
GuardAfterReset_Keep(guard) == guard

GuardAfterReset(guard) == AbsentGuard

\* parsed.file && contentLines > 500
IsLargeFile_AtThreshold(parsed, contentLines) ==
    ~FileUnset(parsed) /\ contentLines >= LargeFileThreshold

IsLargeFile(parsed, contentLines) ==
    ~FileUnset(parsed) /\ contentLines > LargeFileThreshold

\* `${base}.critique${ext}`
AnnotatedPathFor(resolvedPath) ==
    LET ext  == Extname(resolvedPath)
        base == SubSeq(resolvedPath, 1, Len(resolvedPath) - Len(ext))
    IN  base \o <<".", "c", "r", "i", "t", "i", "q", "u", "e">> \o ext

\* the guard armed in large-file mode
LargeFileGuard_Swapped(resolvedPath, normalizedAnnotatedPath) ==
    AllowAnnotatedOnly(normalizedAnnotatedPath, resolvedPath)

LargeFileGuard(resolvedPath, normalizedAnnotatedPath) ==
    AllowAnnotatedOnly(resolvedPath, normalizedAnnotatedPath)

\* sourcePath ? { mode: "deny-all", sourcePath } : undefined
InlineGuard_Always(sourcePath) ==
    DenyAll(IF sourcePath # <<>> THEN sourcePath[1] ELSE <<>>)

InlineGuard(sourcePath) ==
    IF sourcePath # <<>> /\ sourcePath[1] # <<>>
    THEN DenyAll(sourcePath[1])
    ELSE AbsentGuard

\* the effects of one run of the handler body: guard assignment after the
\* reset (<<>> when none), prompt sent, editor text set, notifications
Effects(outcome, arm, send, editor, notified, sourcePath, contentLines) ==
    [outcome |-> outcome, arm |-> arm, send |-> send, editor |-> editor,
     notified |-> notified, sourcePath |-> sourcePath,
     contentLines |-> contentLines]

\* sending instead of loading into the editor although --edit was given
RenderedEffects_EditSends(edit, mode, armed, prompt, sourcePath, contentLines) ==
    Effects(mode, <<armed>>, <<prompt>>, <<>>,
            <<Notification("info", CritiquingMessage)>>, sourcePath, contentLines)

\* if (parsed.edit) { setEditorText; notify } else { arm; sendUserMessage; notify }
RenderedEffects(edit, mode, armed, prompt, sourcePath, contentLines) ==
    IF edit
    THEN Effects("editor", <<>>, <<>>, <<prompt>>,
                 <<Notification("info", LoadedIntoEditorMessage)>>,
                 sourcePath, contentLines)
    ELSE Effects(mode, <<armed>>, <<prompt>>, <<>>,
                 <<Notification("info", CritiquingMessage)>>,
                 sourcePath, contentLines)

\* large-file mode: the prompt names the file and the annotated copy
LargeFilePrompt(parsed, cwd, lens, sourcePath, contentLines, resolvedPath, annotatedPath) ==
    RenderedEffects(parsed.edit, "submitted-large",
                    LargeFileGuard(resolvedPath,
                                   normalizePathForComparison(annotatedPath, cwd)),
                    buildLargeFilePrompt(lens, resolvedPath, annotatedPath),
                    sourcePath, contentLines)

LargeFileMode(parsed, cwd, lens, sourcePath, contentLines, resolvedPath) ==
    LargeFilePrompt(parsed, cwd, lens, sourcePath, contentLines, resolvedPath,
                    AnnotatedPathFor(resolvedPath))

\* inline mode: the prompt embeds the content
InlineMode(parsed, lens, content, label, sourcePath, contentLines) ==
    RenderedEffects(parsed.edit, "submitted-inline", InlineGuard(sourcePath),
                    InlinePrompt(IF lens = "code"
                                 THEN buildCodePrompt(parsed.inline)
                                 ELSE buildWritingPrompt(parsed.inline),
                                 label, content),
                    sourcePath, contentLines)

\* the handler from the lens decision on
RenderCritique(parsed, cwd, content, label, sourcePath, lens, contentLines) ==
    IF IsLargeFile(parsed, contentLines)
    THEN LargeFileMode(parsed, cwd, lens, sourcePath, contentLines,
                       IF sourcePath # <<>> THEN sourcePath[1]
                       ELSE normalizePathForComparison(parsed.file[1], cwd))
    ELSE InlineMode(parsed, lens, content, label, sourcePath, contentLines)

\* content, label and sourcePath are known
WithContent(parsed, cwd, content, label, sourcePath) ==
    RenderCritique(parsed, cwd, content, label, sourcePath,
                   IF parsed.lens # <<>> THEN parsed.lens[1] ELSE detectLens(parsed.file),
                   SplitCount(content, "\n"))

\* if (parsed.file): the file was read
FromFile(parsed, cwd, result) ==
    IF ~result.ok
    THEN Effects("load-error", <<>>, <<>>, <<>>,
                 <<Notification("error", result.message)>>, <<>>, 0)
    ELSE WithContent(parsed, cwd, result.content, result.label, <<result.resolvedPath>>)

\* else: the last assistant response was looked up
FromLastResponse(parsed, cwd, markdown) ==
    IF markdown = <<>>
    THEN Effects("no-response", <<>>, <<>>, <<>>,
                 <<Notification("warning", NoResponseMessage)>>, <<>>, 0)
    ELSE WithContent(parsed, cwd, markdown[1], LastResponseLabel, <<>>)

\* the handler after `await ctx.waitForIdle()` and the reset of the guard
RunCritique(parsed, cwd, branch) ==
    IF ~FileUnset(parsed)
    THEN FromFile(parsed, cwd, readFileContent(parsed.file[1], cwd))
    ELSE FromLastResponse(parsed, cwd, getLastAssistantMarkdown(branch))

\* ------------------------------------------------------------------------
\* Inputs of the model
\* ------------------------------------------------------------------------

\* the environments the process may run in
Environments ==
    { [platform |-> "linux", home |-> <<DirD>>],
      [platform |-> "win32", home |-> <<>>] }

\* raw argument strings given to /critique
ArgStrings ==
    { <<>>,    \* 
      <<"b", ".", "m", "d">>,    \* b.md
      <<"m", ".", "p", "y">>,    \* m.py
      <<"b", ".", "m", "d", " ", "-", "-", "e", "d", "i", "t">>,    \* b.md --edit
      <<"m", ".", "p", "y", " ", "-", "e">>,    \* m.py -e
      <<"m", "i", "s", "s", "i", "n", "g", ".", "t", "x", "t">>,    \* missing.txt
      <<"-", "-", "h", "e", "l", "p">>,    \* --help
      <<"-", "-", "b", "o", "g", "u", "s", " ", "b", ".", "m", "d">>,    \* --bogus b.md
      <<"m", ".", "p", "y", " ", "b", ".", "m", "d">>,    \* m.py b.md
      <<"-", "-", "c", "o", "d", "e", " ", "-", "-", "w", "r", "i", "t", "i", "n", "g">>,    \* --code --writing
      <<"\"", "\"", " ", "m", ".", "p", "y">> }    \* "" m.py

\* argument strings that name the kinds of file the loader tells apart:
\* large with and without extension, binary, unreadable, a directory, missing
FileArgStrings ==
    { <<"b", ".", "m", "d">>,    \* b.md
      <<"k">>,    \* k
      <<"n", ".", "b", "i", "n">>,    \* n.bin
      <<"u", ".", "m", "d">>,    \* u.md
      <<"/", "e">>,    \* /e
      <<"m", "i", "s", "s", "i", "n", "g", ".", "t", "x", "t">> }    \* missing.txt

\* /critique invocations: every argument string with a UI, one without
Invocations ==
    { [args |-> a, hasUI |-> TRUE] : a \in ArgStrings }
    \cup { [args |-> BigMd, hasUI |-> FALSE] }

\* ctx.cwd of a command
CommandCwds == {DirD}

\* the path strings a tool call may carry
ToolPathStrings ==
    { <<"/", "d", "/", "b", ".", "m", "d">>,    \* /d/b.md
      <<"b", ".", "c", "r", "i", "t", "i", "q", "u", "e", ".", "m", "d">>,    \* b.critique.md
      <<"@", "/", "d", "/", "x", "/", ".", ".", "/", "b", ".", "c", "r", "i", "t", "i", "q", "u", "e", ".", "m", "d", " ">>,    \* @/d/x/../b.critique.md 
      <<"/", "d", "/", "B", ".", "C", "R", "I", "T", "I", "Q", "U", "E", ".", "M", "D">>,    \* /d/B.CRITIQUE.MD
      <<"~", "/", "b", ".", "c", "r", "i", "t", "i", "q", "u", "e", ".", "m", "d">>,    \* ~/b.critique.md
      <<>>,    \* 
      <<" ", "\t">> }    \*  \t

\* event.input.path of a tool call: undefined, not a string, or a string
ToolInputs ==
    { [kind |-> k, str |-> <<>>] : k \in {"undefined", "number"} }
    \cup { [kind |-> "string", str |-> s] : s \in ToolPathStrings }

ToolEvent(toolName, input, cwd) == [toolName |-> toolName, input |-> input, cwd |-> cwd]

StringInput(str) == [kind |-> "string", str |-> str]

\* tool_call events: a write of every input in /d, a relative write in /e,
\* some edits, and calls of other tools with and without a path
ToolEvents ==
    { ToolEvent("write", i, DirD) : i \in ToolInputs }
    \cup { ToolEvent("write", StringInput(<<"b", ".", "c", "r", "i", "t", "i", "q", "u", "e", ".", "m", "d">>), DirE),
           ToolEvent("edit", StringInput(BigMd), DirD),
           ToolEvent("edit", StringInput(BigMdAnnotated), DirE),
           ToolEvent("edit", [kind |-> "undefined", str |-> <<>>], DirD),
           ToolEvent("read", StringInput(BigMd), DirD),
           ToolEvent("read", [kind |-> "undefined", str |-> <<>>], DirD),
           ToolEvent("bash", StringInput(<<" ", "\t">>), DirE) }

\* tool_call events about the large file without extension
FileToolEvents ==
    { ToolEvent("write", StringInput(BigPlain), DirD),
      ToolEvent("write", StringInput(<<"k", ".", "c", "r", "i", "t", "i", "q", "u", "e">>), DirD),
      ToolEvent("read", StringInput(BigPlain), DirD) }

TextPart(text) == [type |-> "text", text |-> text]

AssistantEntry(stopReason, content) ==
    [type |-> "message", role |-> "assistant", stopReason |-> stopReason,
     content |-> content]

UserEntry(content) ==
    [type |-> "message", role |-> "user", stopReason |-> "none", content |-> content]

OtherEntry == [type |-> "compaction", role |-> "none", stopReason |-> "none",
               content |-> <<>>]

\* ctx.sessionManager.getBranch() at the time the handler reads it
Branches ==
    { <<>>,
      <<AssistantEntry("stop", <<TextPart(<<"H", "i">>), TextPart(<<"!", "\n">>)>>),
        AssistantEntry("stop", <<TextPart(<<" ">>), [type |-> "toolCall", text |-> <<"x">>]>>),
        AssistantEntry("toolUse", <<TextPart(<<"N", "o">>)>>),
        OtherEntry>>,
      <<UserEntry(<<TextPart(<<"Q">>)>>),
        AssistantEntry("aborted", <<TextPart(<<"N", "o">>)>>)>> }

\* ------------------------------------------------------------------------
\* State machine
\* ------------------------------------------------------------------------

NoInput == [kind |-> "undefined", str |-> <<>>]

\* what is recorded of a step; fields a step does not concern keep these values
NoObservation ==
    [ev |-> "none", guardBefore |-> AbsentGuard, args |-> <<>>, hasUI |-> TRUE,
     cwd |-> <<>>, parsed |-> InitialParsedArgs, outcome |-> "none",
     notified |-> <<>>, sourcePath |-> <<>>, contentLines |-> 0,
     sent |-> <<>>, editor |-> <<>>,
     toolName |-> "none", input |-> NoInput, result |-> <<>>,
     branch |-> <<>>]

Observe(ev) == [NoObservation EXCEPT !.ev = ev, !.guardBefore = critiqueWriteGuard]

Init ==
    /\ \E env \in Environments : platform = env.platform /\ home = env.home
    /\ critiqueWriteGuard = AbsentGuard
    /\ agentBusy = FALSE
    /\ pending = <<>>
    /\ last = NoObservation
    /\ turnSources = {}
    /\ resetSource = <<>>
    /\ endedArmed = FALSE

\* a resumed handler runs before the host delivers anything else
NoneRunnable == \A i \in DOMAIN pending : ~pending[i].released

\* the handler up to `await ctx.waitForIdle()`: what it notifies and whether
\* it goes on to wait
BeginOutcome(parsed, hasUI) ==
    IF ~hasUI
    THEN [outcome |-> "no-ui", notified |-> <<Notification("error", NoUIMessage)>>]
    ELSE IF parsed.error # <<>>
    THEN [outcome |-> "usage-error",
          notified |-> <<Notification("error", parsed.error[1])>>]
    ELSE IF parsed.help
    THEN [outcome |-> "help", notified |-> <<Notification("info", UsageMessage)>>]
    ELSE [outcome |-> "waiting", notified |-> <<>>]

\* /critique is invoked: the handler runs up to `await ctx.waitForIdle()`;
\* the promise is already resolved when no turn is in flight
CritiqueBegin(args, hasUI, cwd) ==
    /\ NoneRunnable
    /\ Len(pending) < MaxPending
    /\ \E parsed \in {parseArgs(args)} :
       \E b \in {BeginOutcome(parsed, hasUI)} :
           /\ pending' = IF b.outcome = "waiting"
                         THEN Append(pending, [parsed |-> parsed, cwd |-> cwd,
                                               released |-> ~agentBusy])
                         ELSE pending
           /\ last' = [Observe("critique-begin") EXCEPT
                          !.args = args, !.hasUI = hasUI, !.cwd = cwd,
                          !.parsed = parsed, !.outcome = b.outcome,
                          !.notified = b.notified]
    /\ UNCHANGED <<platform, home, critiqueWriteGuard, agentBusy,
                   turnSources, resetSource, endedArmed>>

\* waitForIdle has resolved: the rest of the handler runs to its end;
\* pi.sendUserMessage starts a turn
CritiqueResume(branch) ==
    /\ pending # <<>>
    /\ Head(pending).released
    /\ \E inv \in {Head(pending)} :
       \E r \in {RunCritique(inv.parsed, inv.cwd, branch)} :
       \E sentFile \in {r.send # <<>> /\ r.sourcePath # <<>>} :
           /\ critiqueWriteGuard' = IF r.arm = <<>>
                                    THEN GuardAfterReset(critiqueWriteGuard)
                                    ELSE r.arm[1]
           /\ agentBusy' = (agentBusy \/ r.send # <<>>)
           /\ last' = [Observe("critique-resume") EXCEPT
                          !.cwd = inv.cwd, !.parsed = inv.parsed,
                          !.outcome = r.outcome, !.notified = r.notified,
                          !.sourcePath = r.sourcePath,
                          !.contentLines = r.contentLines,
                          !.sent = r.send, !.editor = r.editor]
           /\ turnSources' = IF sentFile THEN turnSources \cup {r.sourcePath[1]}
                             ELSE turnSources
           /\ resetSource' = IF sentFile THEN r.sourcePath ELSE <<>>
    /\ pending' = Tail(pending)
    /\ endedArmed' = FALSE
    /\ UNCHANGED <<platform, home>>

ToolCall_DisarmsWhenAllowed(event) ==
    /\ NoneRunnable
    /\ agentBusy
    /\ \E result \in {toolCallHandler(critiqueWriteGuard, event.toolName,
                                      event.input, event.cwd)} :
           /\ last' = [Observe("tool_call") EXCEPT
                          !.toolName = event.toolName, !.input = event.input,
                          !.cwd = event.cwd, !.result = result]
           /\ critiqueWriteGuard' = IF result = PassThrough THEN AbsentGuard
                                    ELSE critiqueWriteGuard
    /\ UNCHANGED <<platform, home, agentBusy, pending,
                   turnSources, resetSource, endedArmed>>

\* the host is about to run a tool of the turn in flight: tool_call handler
ToolCall(event) ==
    /\ NoneRunnable
    /\ agentBusy
    /\ last' = [Observe("tool_call") EXCEPT
                   !.toolName = event.toolName, !.input = event.input,
                   !.cwd = event.cwd,
                   !.result = toolCallHandler(critiqueWriteGuard, event.toolName,
                                              event.input, event.cwd)]
    /\ UNCHANGED <<platform, home, critiqueWriteGuard, agentBusy, pending,
                   turnSources, resetSource, endedArmed>>

\* the turn in flight ends: agent_end handler, then the host is idle and
\* every handler waiting in waitForIdle is released
AgentEnd ==
    /\ NoneRunnable
    /\ agentBusy
    /\ critiqueWriteGuard' = GuardAfterAgentEnd(critiqueWriteGuard)
    /\ agentBusy' = FALSE
    /\ pending' = [i \in DOMAIN pending |-> [pending[i] EXCEPT !.released = TRUE]]
    /\ last' = Observe("agent_end")
    /\ turnSources' = {}
    /\ resetSource' = <<>>
    /\ endedArmed' = (critiqueWriteGuard.mode # "absent")
    /\ UNCHANGED <<platform, home>>

\* the user submits an ordinary prompt: a turn starts, the extension is
\* not involved
UserPrompt ==
    /\ NoneRunnable
    /\ ~agentBusy
    /\ agentBusy' = TRUE
    /\ last' = Observe("user-prompt")
    /\ UNCHANGED <<platform, home, critiqueWriteGuard, pending,
                   turnSources, resetSource, endedArmed>>

Next ==
    \/ \E inv \in Invocations, cwd \in CommandCwds :
           CritiqueBegin(inv.args, inv.hasUI, cwd)
    \/ \E branch \in Branches : CritiqueResume(branch)
    \/ \E event \in ToolEvents : ToolCall(event)
    \/ AgentEnd
    \/ UserPrompt

Spec == Init /\ [][Next]_vars

\* the same machine, driven by the invocations that exercise the file loader
FileNext ==
    \/ \E args \in FileArgStrings, cwd \in CommandCwds : CritiqueBegin(args, TRUE, cwd)
    \/ \E branch \in {<<>>} : CritiqueResume(branch)
    \/ \E event \in FileToolEvents : ToolCall(event)
    \/ AgentEnd
    \/ UserPrompt

FileSpec == Init /\ [][FileNext]_vars

\* ------------------------------------------------------------------------
\* The pure functions, applied to inputs drawn from bounded sets
\* ------------------------------------------------------------------------

ArgChars == {"a", "-", " ", "\t", "\"", "'"}

\* every argument string of at most MaxArgLen of these characters
CharStrings == UNION {[1..n -> ArgChars] : n \in 0..MaxArgLen}

ArgWords ==
    { <<"-", "-", "c", "o", "d", "e">>,
      <<"-", "-", "w", "r", "i", "t", "i", "n", "g">>,
      <<"-", "e">>,
      <<"-", "h">>,
      <<"-", "-", "n", "o", "-", "i", "n", "l", "i", "n", "e">>,
      <<"-", "-", "b", "o", "g", "u", "s">>,
      <<"a">>,
      <<"b">>,
      <<"\"", "\"">> }

\* every argument string of at most MaxWords of these words, one blank between
WordStrings ==
    { JoinWith(ws, <<" ">>) : ws \in UNION {[1..n -> ArgWords] : n \in 1..MaxWords} }

ArgTexts == CharStrings \cup WordStrings

TranscriptEntries ==
    { AssistantEntry("stop", <<TextPart(<<" ", "A">>), TextPart(<<"B", "\n">>)>>),
      AssistantEntry("stop", <<TextPart(<<"C">>), [type |-> "toolCall", text |-> <<"x">>]>>),
      AssistantEntry("stop", <<TextPart(<<" ">>), TextPart(<<>>)>>),
      AssistantEntry("length", <<TextPart(<<"D">>)>>),
      UserEntry(<<TextPart(<<"E">>)>>),
      OtherEntry }

\* every transcript of at most MaxBranchLen of these entries
Transcripts == UNION {[1..n -> TranscriptEntries] : n \in 0..MaxBranchLen}

FunctionInit ==
    /\ platform = "linux"
    /\ home = <<DirD>>
    /\ critiqueWriteGuard = AbsentGuard
    /\ agentBusy = FALSE
    /\ pending = <<>>
    /\ turnSources = {}
    /\ resetSource = <<>>
    /\ endedArmed = FALSE
    /\ \/ \E args \in ArgTexts :
              last = [NoObservation EXCEPT !.ev = "args", !.args = args]
       \/ \E branch \in Transcripts :
              last = [NoObservation EXCEPT !.ev = "branch", !.branch = branch]

Tokenize ==
    /\ last.ev = "args"
    /\ last' = [last EXCEPT !.ev = "tokenizeArgs", !.result = tokenizeArgs(last.args)]
    /\ UNCHANGED <<platform, home, critiqueWriteGuard, agentBusy, pending,
                   turnSources, resetSource, endedArmed>>

Parse ==
    /\ last.ev = "args"
    /\ last' = [last EXCEPT !.ev = "parseArgs", !.parsed = parseArgs(last.args)]
    /\ UNCHANGED <<platform, home, critiqueWriteGuard, agentBusy, pending,
                   turnSources, resetSource, endedArmed>>

Scan ==
    /\ last.ev = "branch"
    /\ last' = [last EXCEPT !.ev = "getLastAssistantMarkdown",
                            !.result = getLastAssistantMarkdown(last.branch)]
    /\ UNCHANGED <<platform, home, critiqueWriteGuard, agentBusy, pending,
                   turnSources, resetSource, endedArmed>>

FunctionNext == Tokenize \/ Parse \/ Scan

FunctionSpec == FunctionInit /\ [][FunctionNext]_vars

\* ------------------------------------------------------------------------
\* Vocabulary of the properties
\* ------------------------------------------------------------------------

GuardArmed(guard) == guard.mode # "absent"

LastIsToolCall == last.ev = "tool_call"

LastIsWriteOrEdit == LastIsToolCall /\ last.toolName \in {"write", "edit"}

\* the call carries no usable target: no path, not a string, empty or blank
LastTargetBlank ==
    \/ last.input.kind # "string"
    \/ \A i \in DOMAIN last.input.str : IsSpace(last.input.str[i])

\* the target of the call, normalized against the working directory of the call
LastTarget == normalizePathForComparison(last.input.str, last.cwd)

LastBlocked == last.result # <<>> /\ last.result[1].block

LastReason == last.result[1].reason

\* the handler has run to its end after waitForIdle
LastIsResume == last.ev = "critique-resume"

\* the handler has returned before waitForIdle
LastIsAbortedBegin == last.ev = "critique-begin" /\ last.outcome # "waiting"

\* the handler got as far as rendering a prompt
LastRendered == LastIsResume /\ last.outcome \notin {"load-error", "no-response"}

\* ------------------------------------------------------------------------
\* C1
\* ------------------------------------------------------------------------

\* C1 as stated: from the submission of a critique prompt for a disk file p
\* until the next agent_end, every write or edit whose normalized target is
\* p is blocked.
C1_SourceProtectedUntilTurnEnd ==
    (/\ LastIsWriteOrEdit
     /\ ~LastTargetBlank
     /\ \E p \in turnSources : pathsEqual(LastTarget, p))
    => LastBlocked

\* C1 amended: from the submission of a critique prompt for a disk file p
\* until the next agent_end or the next /critique invocation that gets past
\* waitForIdle (and resets the guard), whichever comes first, every write or
\* edit whose normalized target is p is blocked.
C1_SourceProtectedUntilEndOrReset ==
    (/\ LastIsWriteOrEdit
     /\ ~LastTargetBlank
     /\ resetSource # <<>>
     /\ pathsEqual(LastTarget, resetSource[1]))
    => LastBlocked

\* an edit of the source is blocked while its critique runs in large-file mode
C1_Witness ==
    /\ LastIsToolCall
    /\ last.toolName = "edit"
    /\ resetSource # <<>>
    /\ ~LastTargetBlank
    /\ LastTarget = resetSource[1]
    /\ last.guardBefore.mode = "allow-annotated-only"
    /\ LastBlocked

\* ------------------------------------------------------------------------
\* C2
\* ------------------------------------------------------------------------

C3_OnlyAnnotatedWritable ==
    (LastIsWriteOrEdit /\ last.guardBefore.mode = "allow-annotated-only")
    => (/\ ~LastBlocked <=>
              (~LastTargetBlank /\ pathsEqual(LastTarget, last.guardBefore.annotatedPath))
        /\ (~LastTargetBlank /\ ~pathsEqual(LastTarget, last.guardBefore.annotatedPath))
              => (/\ LastBlocked
                  /\ LastReason.annotatedPath = <<last.guardBefore.annotatedPath>>
                  /\ LastReason.sourcePath = <<last.guardBefore.sourcePath>>))

\* a write whose path string is not a itself but normalizes to a is allowed
C3_Witness ==
    /\ LastIsWriteOrEdit
    /\ last.guardBefore.mode = "allow-annotated-only"
    /\ ~LastTargetBlank
    /\ last.input.str # last.guardBefore.annotatedPath
    /\ pathsEqual(LastTarget, last.guardBefore.annotatedPath)
    /\ ~LastBlocked

\* ------------------------------------------------------------------------
\* C4
\* ------------------------------------------------------------------------

\* C4: agent_end moves the guard from any state to Absent; while the guard
\* is Absent no tool call is blocked; so from an agent_end until a /critique
\* invocation passes waitForIdle the guard is Absent and every call passes.
C4_TurnEndDisarms ==
    /\ last.ev = "agent_end" => critiqueWriteGuard = AbsentGuard
    /\ endedArmed => critiqueWriteGuard = AbsentGuard
    /\ (LastIsToolCall /\ ~GuardArmed(last.guardBefore)) => last.result = PassThrough

\* after an agent_end that cleared an armed guard, a write passes
C4_Witness ==
    /\ LastIsWriteOrEdit
    /\ endedArmed
    /\ ~LastTargetBlank
    /\ last.result = PassThrough

\* ------------------------------------------------------------------------
\* C5
\* ------------------------------------------------------------------------

\* the guard is Absent or is the one the last invocation armed for its file
GuardIsOfLastInvocation ==
    \/ critiqueWriteGuard = AbsentGuard
    \/ /\ last.sent # <<>>
       /\ last.sourcePath # <<>>
       /\ critiqueWriteGuard.sourcePath = last.sourcePath[1]

\* C5 as stated: whatever the arguments of an invocation, when it returns
\* the guard is Absent or the state this invocation armed.
C5_EveryInvocationResets ==
    (LastIsResume \/ LastIsAbortedBegin)
    => (IF LastIsResume THEN GuardIsOfLastInvocation
        ELSE critiqueWriteGuard = AbsentGuard)

\* C5 amended: an invocation that passes the interactive-mode check, the
\* argument parsing and the --help check resets the guard to Absent after
\* waitForIdle, before the mode is decided: when it returns, the guard is
\* Absent or the state this invocation armed.  An invocation that returns
\* earlier leaves the guard as it was.
C5_ResetAfterWaitForIdle ==
    /\ LastIsResume => GuardIsOfLastInvocation
    /\ LastIsAbortedBegin => critiqueWriteGuard = last.guardBefore

\* an armed guard of an earlier invocation is gone after an invocation that
\* arms nothing
C5_Witness ==
    /\ LastIsResume
    /\ GuardArmed(last.guardBefore)
    /\ last.sent = <<>>
    /\ critiqueWriteGuard = AbsentGuard

\* ------------------------------------------------------------------------
\* C6
\* ------------------------------------------------------------------------

\* the line count of the file the last invocation read
LastFileLines == SplitCount(Disk[last.sourcePath[1]].content, "\n")

\* C6: an invocation on a readable disk file without --edit that reaches
\* the mode decision submits the reference-by-path prompt and arms
\* AllowAnnotatedOnly(source, annotated) if the line count exceeds 500, and
\* submits the inline prompt and arms DenyAll(source) otherwise.
C6_ThresholdDecidesMode ==
    (LastIsResume /\ last.sourcePath # <<>> /\ ~last.parsed.edit)
    => IF LastFileLines > LargeFileThreshold
       THEN /\ last.sent # <<>>
            /\ last.sent[1].template = "large-file"
            /\ last.sent[1].filePath = last.sourcePath[1]
            /\ critiqueWriteGuard =
                   AllowAnnotatedOnly(last.sourcePath[1],
                                      AnnotatedPathFor(last.sourcePath[1]))
       ELSE /\ last.sent # <<>>
            /\ last.sent[1].template \in {"code", "writing"}
            /\ last.sent[1].content = Disk[last.sourcePath[1]].content
            /\ critiqueWriteGuard = DenyAll(last.sourcePath[1])

\* a file of exactly 500 lines is critiqued inline under DenyAll
C6_Witness ==
    /\ LastIsResume
    /\ last.sourcePath # <<>>
    /\ ~last.parsed.edit
    /\ LastFileLines = LargeFileThreshold
    /\ critiqueWriteGuard.mode = "deny-all"

\* ------------------------------------------------------------------------
\* C7
\* ------------------------------------------------------------------------

\* C7: with --edit or -e, an invocation that reaches prompt rendering (in
\* inline and in large-file mode) puts the prompt into the editor, submits
\* nothing and leaves the guard Absent.
C7_EditDoesNotArm ==
    (LastRendered /\ last.parsed.edit)
    => (/\ last.editor # <<>>
        /\ last.sent = <<>>
        /\ critiqueWriteGuard = AbsentGuard)

\* a large-file prompt is loaded into the editor while an earlier guard was armed
C7_Witness ==
    /\ LastRendered
    /\ last.parsed.edit
    /\ last.editor # <<>>
    /\ last.editor[1].template = "large-file"
    /\ GuardArmed(last.guardBefore)
    /\ critiqueWriteGuard = AbsentGuard

\* ------------------------------------------------------------------------
\* C8
\* ------------------------------------------------------------------------

KnownFlags ==
    { <<"-", "-", "h", "e", "l", "p">>, <<"-", "h">>,
      <<"-", "-", "e", "d", "i", "t">>, <<"-", "e">>,
      <<"-", "-", "n", "o", "-", "i", "n", "l", "i", "n", "e">>,
      <<"-", "-", "c", "o", "d", "e">>,
      <<"-", "-", "w", "r", "i", "t", "i", "n", "g">> }

IsFlagToken(token) == StartsWith(token, <<"-">>)

\* the tokens hold an unknown flag, two positional arguments, or both lens flags
HasUsageProblem(tokens) ==
    \/ \E i \in DOMAIN tokens : IsFlagToken(tokens[i]) /\ tokens[i] \notin KnownFlags
    \/ Cardinality({i \in DOMAIN tokens : ~IsFlagToken(tokens[i])}) >= 2
    \/ /\ \E i \in DOMAIN tokens : tokens[i] = <<"-", "-", "c", "o", "d", "e">>
       /\ \E i \in DOMAIN tokens : tokens[i] = <<"-", "-", "w", "r", "i", "t", "i", "n", "g">>

\* C8: an invocation whose arguments hold an unknown flag, a second
\* positional argument or conflicting --code/--writing is reported as an
\* error and aborts: the guard is as before, nothing is submitted, no
\* editor text is set.
C8_UsageErrorsAbort ==
    (/\ last.ev = "critique-begin"
     /\ last.hasUI
     /\ HasUsageProblem(tokenizeArgs(last.args)))
    => (/\ last.outcome = "usage-error"
        /\ Len(last.notified) = 1
        /\ last.notified[1].level = "error"
        /\ critiqueWriteGuard = last.guardBefore
        /\ last.sent = <<>>
        /\ last.editor = <<>>)

\* ------------------------------------------------------------------------
\* C9
\* ------------------------------------------------------------------------

\* C9: when no file path is given and the prompt for the last assistant
\* response has been submitted, the guard is Absent.
C9_LastResponseLeavesGuardAbsent ==
    (LastIsResume /\ FileUnset(last.parsed) /\ last.sent # <<>>)
    => critiqueWriteGuard = AbsentGuard

\* the last response is submitted for critique while an earlier guard was armed
C9_Witness ==
    /\ LastIsResume
    /\ FileUnset(last.parsed)
    /\ last.sent # <<>>
    /\ last.sent[1].label = LastResponseLabel
    /\ GuardArmed(last.guardBefore)
    /\ critiqueWriteGuard = AbsentGuard

\* ------------------------------------------------------------------------
\* C10
\* ------------------------------------------------------------------------

\* C10: while the guard is armed in either mode, a write or edit whose path
\* is absent, not a string, empty or only white space is blocked with the
\* path-missing reason.
C10_MissingPathBlocked ==
    (LastIsWriteOrEdit /\ GuardArmed(last.guardBefore) /\ LastTargetBlank)
    => (LastBlocked /\ LastReason = MissingPathReason)

\* a write with a blank path string is blocked in allow-annotated-only mode
C10_Witness ==
    /\ LastIsWriteOrEdit
    /\ last.guardBefore.mode = "allow-annotated-only"
    /\ last.input.kind = "string"
    /\ last.input.str # <<>>
    /\ LastTargetBlank
    /\ LastBlocked
    /\ LastReason = MissingPathReason

\* ------------------------------------------------------------------------
\* C11
\* ------------------------------------------------------------------------

\* C11: in every guard state a tool call whose tool is neither write nor
\* edit is never blocked, whatever its path argument.
C11_OtherToolsPass ==
    (LastIsToolCall /\ last.toolName \notin {"write", "edit"})
    => last.result = PassThrough

\* a read of the protected source passes while the guard is armed
C11_Witness ==
    /\ LastIsToolCall
    /\ last.toolName = "read"
    /\ GuardArmed(last.guardBefore)
    /\ ~LastTargetBlank
    /\ pathsEqual(LastTarget, last.guardBefore.sourcePath)
    /\ last.result = PassThrough

\* ------------------------------------------------------------------------
\* C16
\* ------------------------------------------------------------------------

\* absolute, and no component is empty, "." or ".."
IsCanonicalAbsolute(p) ==
    /\ p # <<>>
    /\ p[1] = "/"
    /\ \A i \in DOMAIN SplitBy(Tail(p), "/") :
           SplitBy(Tail(p), "/")[i] \notin {<<>>, <<".">>, <<".", ".">>}

\* where the extension of the last component of p starts: at its last dot,
\* unless that dot is the first character of the component; past the end of
\* p when there is no such dot
ExtensionStart(p) ==
    LET slashes == {i \in DOMAIN p : p[i] = "/"}
        nameStart == IF slashes = {} THEN 1
                     ELSE (CHOOSE i \in slashes : \A j \in slashes : j <= i) + 1
        dots == {i \in (nameStart + 1)..Len(p) : p[i] = "."}
    IN  IF dots = {} THEN Len(p) + 1
        ELSE CHOOSE i \in dots : \A j \in dots : j <= i

\* p with ".critique" inserted before the extension of its last component
WithCritiqueInfix(p) ==
    SubSeq(p, 1, ExtensionStart(p) - 1)
        \o <<".", "c", "r", "i", "t", "i", "q", "u", "e">>
        \o SubSeq(p, ExtensionStart(p), Len(p))

\* C16: whenever the guard is in allow-annotated-only mode, sourcePath and
\* annotatedPath are canonical absolute paths that are not path-equal, and
\* annotatedPath is sourcePath with ".critique" inserted before its
\* extension (appended when it has none).
C16_AnnotatedGuardPaths ==
    critiqueWriteGuard.mode = "allow-annotated-only"
    => (/\ IsCanonicalAbsolute(critiqueWriteGuard.sourcePath)
        /\ IsCanonicalAbsolute(critiqueWriteGuard.annotatedPath)
        /\ ~pathsEqual(critiqueWriteGuard.sourcePath, critiqueWriteGuard.annotatedPath)
        /\ critiqueWriteGuard.annotatedPath =
               WithCritiqueInfix(critiqueWriteGuard.sourcePath))

\* the guard is armed for a large file that has no extension
C16_Witness ==
    /\ critiqueWriteGuard.mode = "allow-annotated-only"
    /\ ~Includes(critiqueWriteGuard.sourcePath, ".")
    /\ critiqueWriteGuard.annotatedPath =
           critiqueWriteGuard.sourcePath \o <<".", "c", "r", "i", "t", "i", "q", "u", "e">>

\* ------------------------------------------------------------------------
\* C19
\* ------------------------------------------------------------------------

\* what is on disk at the path the last invocation names
LastNamedPath == normalizePathForComparison(last.parsed.file[1], last.cwd)

\* the path does not exist, is not a regular file, is unreadable or binary
LastFileUnusable ==
    \/ LastNamedPath \notin DOMAIN Disk
    \/ /\ LastNamedPath \in DOMAIN Disk
       /\ \/ ~Disk[LastNamedPath].isFile
          \/ ~Disk[LastNamedPath].readable
          \/ \E i \in DOMAIN Disk[LastNamedPath].content :
                 Disk[LastNamedPath].content[i] = Nul

\* C19: an invocation on a path that does not exist, is not a regular file,
\* is unreadable or holds a NUL reports the error once and aborts: nothing
\* is submitted, no editor text is set, and the guard is Absent when the
\* command returns.
C19_LoadErrorsAbort ==
    (LastIsResume /\ ~FileUnset(last.parsed) /\ LastFileUnusable)
    => (/\ Len(last.notified) = 1
        /\ last.notified[1].level = "error"
        /\ last.sent = <<>>
        /\ last.editor = <<>>
        /\ critiqueWriteGuard = AbsentGuard)

\* a binary file is refused while an earlier guard was armed
C19_Witness ==
    /\ LastIsResume
    /\ ~FileUnset(last.parsed)
    /\ LastNamedPath = BinFile
    /\ GuardArmed(last.guardBefore)
    /\ last.outcome = "load-error"
    /\ last.sent = <<>>
    /\ critiqueWriteGuard = AbsentGuard

\* ------------------------------------------------------------------------
\* C20
\* ------------------------------------------------------------------------

\* C20: handling a tool call never changes the guard: after a tool_call
\* event, blocked, allowed or not inspected, the guard is what it was
\* before, so an armed guard stays armed across tool calls.
C20_ToolCallKeepsGuard ==
    LastIsToolCall => critiqueWriteGuard = last.guardBefore

\* after an allowed write to the annotated path the guard is still armed
C20_Witness ==
    /\ LastIsWriteOrEdit
    /\ last.guardBefore.mode = "allow-annotated-only"
    /\ ~LastBlocked
    /\ critiqueWriteGuard.mode = "allow-annotated-only"

\* ------------------------------------------------------------------------
\* C12
\* ------------------------------------------------------------------------

LastIsParse == last.ev = "parseArgs"

\* the tokens of the argument string the function was applied to
LastTokens == tokenizeArgs(last.args)

\* the positions of the tokens that are not flags
Positionals(tokens) == {i \in DOMAIN tokens : ~IsFlagToken(tokens[i])}

Least(S) == CHOOSE i \in S : \A j \in S : i <= j

Greatest(S) == CHOOSE i \in S : \A j \in S : j <= i

\* C12: for every token sequence the tokenizer can produce, empty tokens
\* included, parseArgs assigns the first non-flag token to file and never
\* replaces it, and every further non-flag token sets error to the
\* unexpected-argument message (which is the error returned when that
\* token is the last one).
C12_FirstPositionalIsFile ==
    LastIsParse
    => (/\ Positionals(LastTokens) = {} => last.parsed.file = <<>>
        /\ Positionals(LastTokens) # {}
              => last.parsed.file = <<LastTokens[Least(Positionals(LastTokens))]>>
        /\ Cardinality(Positionals(LastTokens)) >= 2
              => /\ last.parsed.error # <<>>
                 /\ Len(LastTokens) \in Positionals(LastTokens)
                       => last.parsed.error =
                              <<UnexpectedArgError(LastTokens[Len(LastTokens)])>>)

\* ------------------------------------------------------------------------
\* C13
\* ------------------------------------------------------------------------

CodeFlag == <<"-", "-", "c", "o", "d", "e">>

WritingFlag == <<"-", "-", "w", "r", "i", "t", "i", "n", "g">>

\* the positions of the lens flags
LensFlags(tokens) == {i \in DOMAIN tokens : tokens[i] \in {CodeFlag, WritingFlag}}

BothLensFlags(tokens) ==
    /\ \E i \in DOMAIN tokens : tokens[i] = CodeFlag
    /\ \E i \in DOMAIN tokens : tokens[i] = WritingFlag

\* C13: for every argument string in which --code and --writing both occur
\* as tokens, in either order and among any other tokens, parseArgs returns
\* an error and lens is the last lens flag of the string.
C13_LensFlagsExclusive ==
    (LastIsParse /\ BothLensFlags(LastTokens))
    => (/\ last.parsed.error # <<>>
        /\ last.parsed.lens =
               <<IF LastTokens[Greatest(LensFlags(LastTokens))] = CodeFlag
                 THEN "code" ELSE "writing">>)

\* --writing, some other token, then --code: an error, and lens is code
C13_Witness ==
    /\ LastIsParse
    /\ Len(LastTokens) = 3
    /\ LastTokens[1] = WritingFlag
    /\ LastTokens[2] \notin {CodeFlag, WritingFlag}
    /\ LastTokens[3] = CodeFlag
    /\ last.parsed.error # <<>>
    /\ last.parsed.lens = <<"code">>

\* ------------------------------------------------------------------------
\* C14
\* ------------------------------------------------------------------------

LastIsTokenize == last.ev = "tokenizeArgs"

HasQuote(s) == \E i \in DOMAIN s : s[i] \in {"\"", "'"}

\* the maximal runs of non-whitespace characters of s, as <<first, last>>
Runs(s) ==
    { r \in (DOMAIN s) \X (DOMAIN s) :
        /\ r[1] <= r[2]
        /\ \A k \in r[1]..r[2] : ~IsSpace(s[k])
        /\ r[1] = 1 \/ IsSpace(s[r[1] - 1])
        /\ r[2] = Len(s) \/ IsSpace(s[r[2] + 1]) }

\* C14: for every input without a quote character, tokenize returns exactly
\* the maximal non-whitespace runs of the input, in order (the empty
\* sequence when the input is empty or all white space).
C14_UnquotedSplitsOnWhitespace ==
    (LastIsTokenize /\ ~HasQuote(last.args))
    => (/\ Len(last.result) = Cardinality(Runs(last.args))
        /\ \A r \in Runs(last.args) :
               last.result[1 + Cardinality({q \in Runs(last.args) : q[1] < r[1]})]
                   = SubSeq(last.args, r[1], r[2]))

\* two tokens separated by a tab, after leading white space
C14_Witness ==
    /\ LastIsTokenize
    /\ ~HasQuote(last.args)
    /\ Len(last.args) = 4
    /\ IsSpace(last.args[1])
    /\ last.args[3] = "\t"
    /\ Len(last.result) = 2

\* ------------------------------------------------------------------------
\* C15
\* ------------------------------------------------------------------------

\* the position of the first character of s that is not white space
FirstTokenStart(s) == Least({i \in DOMAIN s : ~IsSpace(s[i])})

\* the position of the quote that closes the one at position f, past the
\* end of s when there is none
ClosingQuote(s, f) ==
    Least({k \in (f + 1)..Len(s) : s[k] = s[f]} \cup {Len(s) + 1})

\* the position of the first white space after position f, past the end of
\* s when there is none
BareEnd(s, f) ==
    Least({k \in (f + 1)..Len(s) : IsSpace(s[k])} \cup {Len(s) + 1})

\* s from position i on
From(s, i) == IF i > Len(s) THEN <<>> ELSE SubSeq(s, i, Len(s))

\* the tokens of s when its first token is not quoted: the characters up
\* to the next white space, quote characters among them, then the tokens
\* of what follows
BareFirstToken(s) ==
    <<SubSeq(s, FirstTokenStart(s), BareEnd(s, FirstTokenStart(s)) - 1)>>
        \o tokenizeArgs(From(s, BareEnd(s, FirstTokenStart(s))))

\* the tokens of s when its first token is quoted and the quote is closed:
\* the characters between the quotes, then the tokens of what follows
ClosedFirstToken(s) ==
    <<SubSeq(s, FirstTokenStart(s) + 1, ClosingQuote(s, FirstTokenStart(s)) - 1)>>
        \o tokenizeArgs(From(s, ClosingQuote(s, FirstTokenStart(s)) + 1))

IsClosed(s) == ClosingQuote(s, FirstTokenStart(s)) <= Len(s)

\* C15 as stated: a token that starts with a quote is exactly the
\* characters up to the next occurrence of the same quote, or up to the end
\* of the input if there is none, without the quotes, with white space and
\* the other quote kept; a quote elsewhere is an ordinary character.
C15_QuotedTokenToEndOfInput ==
    (LastIsTokenize /\ \E i \in DOMAIN last.args : ~IsSpace(last.args[i]))
    => last.result =
           IF ~IsQuote(last.args[FirstTokenStart(last.args)])
           THEN BareFirstToken(last.args)
           ELSE IF IsClosed(last.args)
           THEN ClosedFirstToken(last.args)
           ELSE <<From(last.args, FirstTokenStart(last.args) + 1)>>

\* C15 amended: a token that starts with a quote is exactly the characters
\* up to the next occurrence of the same quote, without the quotes, with
\* white space and the other quote kept, and it may be empty; if the quote
\* is never closed the token runs to the end of the input with the trailing
\* white space of the input removed.  A quote elsewhere is an ordinary
\* character.
C15_QuotedTokenToEndOfTrimmedInput ==
    (LastIsTokenize /\ \E i \in DOMAIN last.args : ~IsSpace(last.args[i]))
    => last.result =
           IF ~IsQuote(last.args[FirstTokenStart(last.args)])
           THEN BareFirstToken(last.args)
           ELSE IF IsClosed(last.args)
           THEN ClosedFirstToken(last.args)
           ELSE <<TrimEnd(From(last.args, FirstTokenStart(last.args) + 1))>>

\* one quoted token that holds a blank and the other quote character
C15_Witness ==
    /\ LastIsTokenize
    /\ last.args = <<"\"", " ", "'", "\"">>
    /\ last.result = << <<" ", "'">> >>

\* ------------------------------------------------------------------------
\* C17
\* ------------------------------------------------------------------------

\* the lens flag before position i that is nearest to it is the other one
ConflictsAt(tokens, i) ==
    /\ tokens[i] \in {CodeFlag, WritingFlag}
    /\ {j \in LensFlags(tokens) : j < i} # {}
    /\ tokens[Greatest({j \in LensFlags(tokens) : j < i})] # tokens[i]

\* the token at position i raises a problem: an unknown flag, a lens flag
\* against the lens in force, or a positional when file holds a path (an
\* empty token leaves file unset, which is the subject of C12)
RaisesProblem(tokens, i) ==
    \/ IsFlagToken(tokens[i]) /\ tokens[i] \notin KnownFlags
    \/ ConflictsAt(tokens, i)
    \/ /\ ~IsFlagToken(tokens[i])
       /\ \E j \in Positionals(tokens) : j < i /\ tokens[j] # <<>>

ProblemMessage(tokens, i) ==
    IF ~IsFlagToken(tokens[i]) THEN UnexpectedArgError(tokens[i])
    ELSE IF tokens[i] \in {CodeFlag, WritingFlag} THEN ConflictError
    ELSE UnknownFlagError(tokens[i])

Problems(tokens) == {i \in DOMAIN tokens : RaisesProblem(tokens, i)}

LastIsScan == last.ev = "getLastAssistantMarkdown"

\* the text segments of an entry, joined with a blank line, trimmed at the end
EntryText(entry) ==
    LET segments == SelectSeq(entry.content, LAMBDA part : part.type = "text")
    IN  TrimEnd(JoinWith([i \in DOMAIN segments |-> segments[i].text], <<"\n", "\n">>))

Qualifies(entry) ==
    /\ entry.type = "message"
    /\ entry.role = "assistant"
    /\ entry.stopReason = "stop"
    /\ EntryText(entry) # <<>>

Qualifying(branch) == {i \in DOMAIN branch : Qualifies(branch[i])}

\* C18: the scan returns the text of the most recent entry that is an
\* assistant message with a normal stop and whose text segments, joined
\* with a blank line and trimmed at the end, are not empty; it skips every
\* later entry, and returns nothing when no entry qualifies.
C18_LastQualifyingEntry ==
    LastIsScan
    => last.result =
           IF Qualifying(last.branch) = {} THEN <<>>
           ELSE <<EntryText(last.branch[Greatest(Qualifying(last.branch))])>>

\* the first of three entries is returned, its two segments joined: the
\* later ones are an assistant message cut by the length limit and one
\* with only white space
C18_Witness ==
    /\ LastIsScan
    /\ Len(last.branch) = 3
    /\ last.branch[2].role = "assistant" /\ last.branch[2].stopReason = "length"
    /\ last.branch[3].stopReason = "stop" /\ ~Qualifies(last.branch[3])
    /\ last.result = << <<" ", "A", "\n", "\n", "B">> >>

====
